---- MODULE Spec2Model ----
(***************************************************************************)
(* A/B testing router of the churn prediction API.                         *)
(*                                                                         *)
(*   src/src/api/ab_testing.py   ABTester: traffic split, request log,     *)
(*                               statistics, reset                         *)
(*   src/src/api/main.py         predict_churn (the route call),           *)
(*                               get_ab_stats, reset_ab_stats              *)
(*                                                                         *)
(* Weights and the drawn random value are fixed-point numbers in           *)
(* thousandths (0.5 is 500).  A quotient a / b of the code is kept as the  *)
(* exact pair <<a, b>>.  A traffic split is an insertion-ordered dict: a   *)
(* sequence of [version, weight] with distinct versions.                   *)
(*                                                                         *)
(* ABTester holds no lock.  Its methods are modelled at the granularity of *)
(* their statements: every read of self.request_log is a step of its own,  *)
(* so callers on several threads interleave between the statements.        *)
(*                                                                         *)
(*   Spec       route, reset and statistics callers running concurrently   *)
(*   SpecCtor   ABTester.__init__ on every argument of CtorArgs            *)
(*   SpecStats  get_statistics alone, on every log of LogsOf               *)
(*   SpecSelect select_model alone, on every split of SelectSplits, every  *)
(*              user_id and every value of random.random()                 *)
(***************************************************************************)
EXTENDS Integers, Sequences, FiniteSets, TLC

VARIABLES
    arg,                \* the traffic_split argument handed to ABTester(...)
    status,             \* "new" | "ok" | "raised": outcome of ABTester.__init__
    traffic_split,      \* self.traffic_split
    request_log,        \* contents of the list bound to self.request_log
    epoch,              \* identity of that list object (a reset binds a new list)
    next_id,            \* number of request ids issued so far
    prediction_counter, \* predictions_total, per model_version
    call,               \* per worker: position and locals of predict_churn
    gs,                 \* position and locals of the get_statistics caller
    returned,           \* route calls that returned a response since the last reset
    since,              \* appends made to the current list since it was created
    quietReset,         \* the last reset ran while no route call was in flight
    sel                 \* a select_model call on its own: its inputs and its result

vars == <<arg, status, traffic_split, request_log, epoch, next_id,
          prediction_counter, call, gs, returned,
          since, quietReset, sel>>

-----------------------------------------------------------------------------
(* Bounds *)

MaxRequests == 2
MaxResets == 1
MaxLogLen == 3
MaxLatency == 2

Workers == {"w1", "w2"}
Versions == {"v1", "v2", "v3"}
Latencies == 1..MaxLatency
Labels == {0, 1}

\* what predict returns and the latency measured around it, for the route
\* calls of the concurrent specification
Outcomes == { [prediction |-> 0, latency_ms |-> 1],
              [prediction |-> 1, latency_ms |-> 2] }

\* values of random.random(), in thousandths
RandValues == {0, 500, 501, 995}

\* every value of random.random(), which lies in [0.0, 1.0), in thousandths
UnitInterval == 0..999

\* the user_id of a route call; NoUser is the default None
NoUser == "None"
UserIds == {NoUser, "u1", "u2"}

\* weights a caller may hand to the constructor, in thousandths
Weights == {-500, 200, 495, 500, 505, 600, 800, 1000, 1500}

-----------------------------------------------------------------------------
(* Program constants *)

LowerSum == 990
UpperSum == 1010
Percent == 100

\* main.py, lifespan: the registry holds v1 and v2
models == {"v1", "v2"}

\* ab_testing.py line 19: the default split
DefaultSplit == << [version |-> "v1", weight |-> 500],
                   [version |-> "v2", weight |-> 500] >>

None == [given |-> FALSE, split |-> << >>]
Dict(s) == [given |-> TRUE, split |-> s]

-----------------------------------------------------------------------------
(* Helpers on sequences and maps *)

RECURSIVE SumWeights(_)
SumWeights(s) ==
    IF s = << >> THEN 0 ELSE s[1].weight + SumWeights(Tail(s))

RECURSIVE SumSeq(_)
SumSeq(s) == IF s = << >> THEN 0 ELSE s[1] + SumSeq(Tail(s))

RECURSIVE MinSeq(_)
MinSeq(s) ==
    IF Len(s) = 1 THEN s[1]
    ELSE LET m == MinSeq(Tail(s)) IN IF s[1] <= m THEN s[1] ELSE m

RECURSIVE MaxSeq(_)
MaxSeq(s) ==
    IF Len(s) = 1 THEN s[1]
    ELSE LET m == MaxSeq(Tail(s)) IN IF s[1] >= m THEN s[1] ELSE m

Keys(split) == { split[i].version : i \in DOMAIN split }

EmptyMap == [v \in {} |-> 0]

Put(m, k, e) == [x \in (DOMAIN m) \cup {k} |-> IF x = k THEN e ELSE m[x]]

-----------------------------------------------------------------------------
(* ABTester.__init__ *)

\* line 19: traffic_split or {"v1": 0.5, "v2": 0.5}
init_split(a) ==
    IF a.given /\ a.split # << >> THEN a.split ELSE DefaultSplit

\* lines 23-25: the ValueError
init_raises(a) ==
    LET total == SumWeights(init_split(a))
    IN  ~(LowerSum <= total /\ total <= UpperSum)

-----------------------------------------------------------------------------
(* ABTester.select_model *)

RECURSIVE select_from_last(_, _, _, _)
select_from_last(split, i, cumulative, rand_value) ==
    IF i > Len(split) THEN split[Len(split)].version
    ELSE LET c == cumulative + split[i].weight
         IN  IF rand_value <= c THEN split[i].version
             ELSE select_from_last(split, i + 1, c, rand_value)

\* lines 41-49: the loop over self.traffic_split.items() from its i-th item
\* on, and the fallback of line 49 when the loop ends without a return
RECURSIVE select_from(_, _, _, _)
select_from(split, i, cumulative, rand_value) ==
    IF i > Len(split) THEN split[1].version
    ELSE LET c == cumulative + split[i].weight
         IN  IF rand_value <= c THEN split[i].version
             ELSE select_from(split, i + 1, c, rand_value)

hash_unit(user_id) == IF user_id = "u1" THEN 250 ELSE 750

select_model_sticky(split, user_id, rand_value) ==
    IF user_id = NoUser THEN select_from(split, 1, 0, rand_value)
    ELSE select_from(split, 1, 0, hash_unit(user_id))

select_model_default(split, user_id, rand_value) ==
    select_from(DefaultSplit, 1, 0, rand_value)

\* lines 27-49, with rand_value the value line 40 draws.  user_id is a
\* parameter the body never reads (line 38).
select_model(split, user_id, rand_value) ==
    select_from(split, 1, 0, rand_value)

-----------------------------------------------------------------------------
(* ABTester.log_request *)

log_entry_first_version(request_id, model_version, prediction, latency_ms) ==
    [request_id |-> request_id, model_version |-> "v1",
     prediction |-> prediction, latency_ms |-> latency_ms]

\* lines 57-64.  timestamp and churn_probability are written and never read
\* by any operation of the class; they are left out of the record.
log_entry(request_id, model_version, prediction, latency_ms) ==
    [request_id |-> request_id, model_version |-> model_version,
     prediction |-> prediction, latency_ms |-> latency_ms]

list_append_lost(lst, e) ==
    IF lst = << >> THEN << e >> ELSE [lst EXCEPT ![Len(lst)] = e]

\* line 65: list.append
list_append(lst, e) == Append(lst, e)

-----------------------------------------------------------------------------
(* ABTester.get_statistics *)

ZeroStats == [total_requests |-> 0, models |-> EmptyMap]

model_requests_unfiltered(log, model_version) == log

\* line 82
model_requests(log, model_version) ==
    SelectSeq(log, LAMBDA r : r.model_version = model_version)

version_stats_rate_of_total(mr, divisor) ==
    LET latencies == [i \in DOMAIN mr |-> mr[i].latency_ms]
        predictions == [i \in DOMAIN mr |-> mr[i].prediction]
    IN  [request_count |-> Len(mr),
         traffic_percentage |-> << Len(mr) * Percent, divisor >>,
         avg_latency_ms |-> << SumSeq(latencies), Len(latencies) >>,
         churn_rate |-> << SumSeq(predictions) * Percent, divisor >>,
         min_latency_ms |-> MinSeq(latencies),
         max_latency_ms |-> MaxSeq(latencies)]

\* lines 85-95; divisor is len(self.request_log) as read on line 90
version_stats(mr, divisor) ==
    LET latencies == [i \in DOMAIN mr |-> mr[i].latency_ms]
        predictions == [i \in DOMAIN mr |-> mr[i].prediction]
    IN  [request_count |-> Len(mr),
         traffic_percentage |-> << Len(mr) * Percent, divisor >>,
         avg_latency_ms |-> << SumSeq(latencies), Len(latencies) >>,
         churn_rate |-> << SumSeq(predictions) * Percent, Len(predictions) >>,
         min_latency_ms |-> MinSeq(latencies),
         max_latency_ms |-> MaxSeq(latencies)]

\* line 84
has_entry(mr) == mr # << >>

-----------------------------------------------------------------------------
(* State after construction *)

IdleCall == [pc |-> "idle", request_id |-> 0, selected_model |-> "",
             prediction |-> 0, latency_ms |-> 0, ref |-> 0,
             appends |-> 0, incs |-> 0]

IdleStats == [pc |-> "idle", total |-> 0, idx |-> 0, mr |-> << >>,
              models |-> EmptyMap, result |-> ZeroStats, raised |-> FALSE,
              epoch0 |-> 0, appended |-> FALSE, reset |-> FALSE]

\* the splits the service is started with: main.py line 53, and a split
\* naming a version the registry does not hold
RuntimeArgs ==
    { Dict(DefaultSplit),
      Dict(<< [version |-> "v1", weight |-> 500],
              [version |-> "v3", weight |-> 500] >>) }

\* every insertion-ordered dict over v1, v2 with at most two entries
CtorArgs ==
    { None, Dict(<< >>) }
    \cup { Dict(<< [version |-> v, weight |-> x] >>) :
             v \in {"v1", "v2"}, x \in Weights }
    \cup { Dict(<< [version |-> p[1], weight |-> x[1]],
                   [version |-> p[2], weight |-> x[2]] >>) :
             p \in { <<"v1", "v2">>, <<"v2", "v1">> },
             x \in Weights \X Weights }

IdleSelect == [pc |-> "idle", user_id |-> NoUser, rand_value |-> 0,
               result |-> ""]

Fresh ==
    /\ request_log = << >>
    /\ epoch = 0
    /\ next_id = 0
    /\ prediction_counter = [v \in Versions |-> 0]
    /\ call = [w \in Workers |-> IdleCall]
    /\ gs = IdleStats
    /\ returned = 0
    /\ since = 0
    /\ quietReset = FALSE
    /\ sel = IdleSelect

\* main.py lifespan, lines 45-53: the tester is constructed and serving
Init ==
    /\ arg \in RuntimeArgs
    /\ ~init_raises(arg)
    /\ status = "ok"
    /\ traffic_split = init_split(arg)
    /\ Fresh

\* before ABTester(arg) runs
InitCtor ==
    /\ arg \in CtorArgs
    /\ status = "new"
    /\ traffic_split = << >>
    /\ Fresh

runtime_but_sel == <<request_log, epoch, next_id, prediction_counter,
                     call, gs, returned, since, quietReset>>

runtime == <<runtime_but_sel, sel>>

-----------------------------------------------------------------------------
(* ABTester.__init__, lines 11-25 *)

Construct ==
    /\ status = "new"
    /\ traffic_split' = init_split(arg)
    /\ status' = IF init_raises(arg) THEN "raised" ELSE "ok"
    /\ UNCHANGED <<arg, runtime>>

-----------------------------------------------------------------------------
(* predict_churn, main.py lines 131-175 *)

Active(g) == g.pc \in {"total", "loop", "entry"}

InFlight(c) == c.pc \in {"predicted", "counted", "logging"}

\* line 140.  uuid4 is modelled as a generator of fresh identifiers.
uuid4(n) == n + 1

lookup_never_fails(model_version) == FALSE

\* line 147: models[selected_model] raises KeyError for a version the
\* registry does not hold
lookup_fails(model_version) == model_version \notin models

\* lines 140-148: request id, select_model, registry lookup and predict.
\* These statements touch nothing another caller writes, so they are one
\* step.  KeyError and an exception of predict both end in the handler of
\* lines 174-175; otherwise the label and the measured latency are kept.
RoutePredict(w) ==
    /\ status = "ok"
    /\ call[w].pc \in {"idle", "returned", "failed"}
    /\ next_id < MaxRequests
    /\ next_id' = next_id + 1
    /\ \E user_id \in UserIds, rand_value \in RandValues :
         LET c == [IdleCall EXCEPT
                     !.request_id = uuid4(next_id),
                     !.selected_model =
                        select_model(traffic_split, user_id, rand_value)]
         IN  \/ /\ lookup_fails(c.selected_model)
                /\ call' = [call EXCEPT ![w] = [c EXCEPT !.pc = "failed"]]
             \/ /\ ~lookup_fails(c.selected_model)
                /\ call' = [call EXCEPT ![w] = [c EXCEPT !.pc = "failed"]]
             \/ /\ ~lookup_fails(c.selected_model)
                /\ \E o \in Outcomes :
                     call' = [call EXCEPT ![w] =
                                [c EXCEPT !.pc = "predicted",
                                          !.prediction = o.prediction,
                                          !.latency_ms = o.latency_ms]]
    /\ UNCHANGED <<arg, status, traffic_split, request_log, epoch,
                   prediction_counter, gs, returned, since, quietReset, sel>>

\* lines 151-156.  The three metrics are bumped together and nothing can
\* fail between them; prediction_counter stands for the three.
RouteMetrics(w) ==
    /\ call[w].pc = "predicted"
    /\ prediction_counter' =
         [prediction_counter EXCEPT ![call[w].selected_model] = @ + 1]
    /\ call' = [call EXCEPT ![w].pc = "counted", ![w].incs = @ + 1]
    /\ UNCHANGED <<arg, status, traffic_split, request_log, epoch, next_id,
                   gs, returned, since, quietReset, sel>>

\* line 159 into log_request, lines 57-65: the entry is built and
\* self.request_log is read
RouteLoadLog(w) ==
    /\ call[w].pc = "counted"
    /\ call' = [call EXCEPT ![w].pc = "logging", ![w].ref = epoch]
    /\ UNCHANGED <<arg, status, traffic_split, request_log, epoch, next_id,
                   prediction_counter, gs, returned, since, quietReset, sel>>

\* line 65: append on the list that was read (a list a reset has replaced in
\* between is no longer reachable from the tester); then lines 162-172: the
\* response is built from the values predict returned, and returned
RouteAppend(w) ==
    /\ call[w].pc = "logging"
    /\ LET c == call[w]
           e == log_entry(c.request_id, c.selected_model, c.prediction,
                          c.latency_ms)
       IN  IF c.ref = epoch
           THEN /\ request_log' = list_append(request_log, e)
                /\ since' = since + 1
                /\ gs' = IF Active(gs) THEN [gs EXCEPT !.appended = TRUE] ELSE gs
           ELSE UNCHANGED <<request_log, since, gs>>
    /\ call' = [call EXCEPT ![w] =
                  [IdleCall EXCEPT !.pc = "returned",
                                   !.request_id = call[w].request_id,
                                   !.selected_model = call[w].selected_model,
                                   !.incs = call[w].incs,
                                   !.appends = call[w].appends + 1]]
    /\ returned' = returned + 1
    /\ UNCHANGED <<arg, status, traffic_split, epoch, next_id,
                   prediction_counter, quietReset, sel>>

-----------------------------------------------------------------------------
(* ABTester.reset_logs, lines 99-101 *)

same_list == request_log

\* line 101: a new empty list
empty_list == << >>

reset_logs ==
    /\ status = "ok"
    /\ epoch < MaxResets
    /\ request_log' = empty_list
    /\ epoch' = epoch + 1
    /\ since' = 0
    /\ returned' = 0
    /\ quietReset' = (\A w \in Workers : ~InFlight(call[w]))
    /\ gs' = IF Active(gs) THEN [gs EXCEPT !.reset = TRUE] ELSE gs
    /\ UNCHANGED <<arg, status, traffic_split, next_id, prediction_counter,
                   call, sel>>

-----------------------------------------------------------------------------
(* ABTester.get_statistics, lines 67-97, statement by statement *)

others == <<arg, status, traffic_split, request_log, epoch, next_id,
            prediction_counter, call, returned,
            since, quietReset, sel>>

requests_ever(log) == next_id

\* line 76: len(self.request_log)
total_requests(log) == Len(log)

\* lines 69-73
GsCheck ==
    /\ status = "ok"
    /\ gs.pc \in {"idle", "done"}
    /\ gs' = IF request_log = << >>
             THEN [IdleStats EXCEPT !.pc = "done", !.result = ZeroStats,
                                    !.epoch0 = epoch]
             ELSE [IdleStats EXCEPT !.pc = "total", !.epoch0 = epoch]
    /\ UNCHANGED others

\* lines 75-78
GsTotal ==
    /\ gs.pc = "total"
    /\ gs' = [gs EXCEPT !.pc = "loop", !.total = total_requests(request_log),
                      !.idx = 1]
    /\ UNCHANGED others

\* lines 81-84, and line 97 when the loop is over
GsLoop ==
    /\ gs.pc = "loop"
    /\ IF gs.idx > Len(traffic_split)
       THEN gs' = [gs EXCEPT !.pc = "done", !.total = 0, !.idx = 0,
                             !.models = EmptyMap,
                             !.result = [total_requests |-> gs.total,
                                         models |-> gs.models]]
       ELSE LET mr == model_requests(request_log, traffic_split[gs.idx].version)
            IN  gs' = IF has_entry(mr)
                      THEN [gs EXCEPT !.pc = "entry", !.mr = mr]
                      ELSE [gs EXCEPT !.idx = @ + 1]
    /\ UNCHANGED others

\* lines 85-95; line 90 divides by len(self.request_log), read again
GsEntry ==
    /\ gs.pc = "entry"
    /\ gs' = IF Len(request_log) = 0
             THEN [gs EXCEPT !.pc = "done", !.raised = TRUE, !.total = 0,
                             !.idx = 0, !.mr = << >>, !.models = EmptyMap]
             ELSE [gs EXCEPT !.pc = "loop", !.idx = @ + 1, !.mr = << >>,
                             !.models = Put(gs.models,
                                            traffic_split[gs.idx].version,
                                            version_stats(gs.mr, Len(request_log)))]
    /\ UNCHANGED others

-----------------------------------------------------------------------------

\* the route, reset and statistics callers, on any number of threads
Next ==
    \/ \E w \in Workers : RoutePredict(w)
    \/ \E w \in Workers : RouteMetrics(w)
    \/ \E w \in Workers : RouteLoadLog(w)
    \/ \E w \in Workers : RouteAppend(w)
    \/ reset_logs
    \/ GsCheck
    \/ GsTotal
    \/ GsLoop
    \/ GsEntry

Spec == Init /\ [][Next]_vars

NextCtor == Construct

SpecCtor == InitCtor /\ [][NextCtor]_vars

-----------------------------------------------------------------------------
(* get_statistics alone, on every request log up to MaxLogLen records *)

StatsSplits ==
    { DefaultSplit,
      << [version |-> "v1", weight |-> 500],
         [version |-> "v3", weight |-> 500] >>,
      << [version |-> "v2", weight |-> 300],
         [version |-> "v3", weight |-> 300],
         [version |-> "v1", weight |-> 400] >> }

\* the logs route calls can have written under split: request ids are
\* distinct, versions are versions of the split that the registry holds
LogsOf(split) ==
    UNION { [1..n -> { log_entry(0, v, p, l) :
                         v \in Keys(split) \cap models,
                         p \in Labels, l \in Latencies }] :
            n \in 0..MaxLogLen }

Numbered(log) == [i \in DOMAIN log |-> [log[i] EXCEPT !.request_id = i]]

InitStats ==
    /\ arg \in { Dict(x) : x \in StatsSplits }
    /\ ~init_raises(arg)
    /\ status = "ok"
    /\ traffic_split = init_split(arg)
    /\ \E log \in LogsOf(init_split(arg)) : request_log = Numbered(log)
    /\ epoch = 0
    /\ next_id = Len(request_log)
    /\ prediction_counter =
         [v \in Versions |-> Len(model_requests(request_log, v))]
    /\ call = [w \in Workers |-> IdleCall]
    /\ gs = IdleStats
    /\ returned = Len(request_log)
    /\ since = Len(request_log)
    /\ quietReset = FALSE
    /\ sel = IdleSelect

NextStats ==
    \/ GsCheck
    \/ GsTotal
    \/ GsLoop
    \/ GsEntry

SpecStats == InitStats /\ [][NextStats]_vars

-----------------------------------------------------------------------------
(* select_model alone *)

\* the arguments of CtorArgs, the splits of StatsSplits, and three-version
\* splits that sum to 0.99 and to 0.995, the latter with a negative weight
SelectArgs ==
    CtorArgs
    \cup { Dict(x) : x \in StatsSplits }
    \cup { Dict(<< [version |-> "v2", weight |-> 300],
                   [version |-> "v3", weight |-> 300],
                   [version |-> "v1", weight |-> 390] >>),
           Dict(<< [version |-> "v1", weight |-> 200],
                   [version |-> "v2", weight |-> 1300],
                   [version |-> "v3", weight |-> -505] >>) }

\* a tester whose construction did not raise
InitSelect ==
    /\ arg \in SelectArgs
    /\ ~init_raises(arg)
    /\ status = "ok"
    /\ traffic_split = init_split(arg)
    /\ Fresh

\* ab_testing.py lines 27-49: one call select_model(user_id); line 40 draws
\* rand_value
SelectModel ==
    /\ status = "ok"
    /\ sel.pc = "idle"
    /\ \E user_id \in UserIds, rand_value \in UnitInterval :
         sel' = [pc |-> "done", user_id |-> user_id,
                 rand_value |-> rand_value,
                 result |-> select_model(traffic_split, user_id, rand_value)]
    /\ UNCHANGED <<arg, status, traffic_split, runtime_but_sel>>

NextSelect == SelectModel

SpecSelect == InitSelect /\ [][NextSelect]_vars

-----------------------------------------------------------------------------
(* Properties of the route call *)

RecordsOf(id) == { i \in DOMAIN request_log : request_log[i].request_id = id }

Counted(v) == { w \in Workers : call[w].pc \in {"counted", "logging"}
                                 /\ call[w].selected_model = v }

\* C1: a route call that returns has made exactly one append, of a record
\* carrying its request id and the version selected for it, and has bumped the
\* per-version counter once; a route call that fails has appended nothing and
\* bumped no counter.  While no reset has run, the counter of a version equals
\* its records in the log plus the calls between the metrics and the append.
C1_OneRecordPerSuccess ==
    /\ \A w \in Workers :
         LET c == call[w]
             mine == RecordsOf(c.request_id)
         IN  /\ c.pc = "returned" =>
                  /\ c.appends = 1
                  /\ c.incs = 1
                  /\ Cardinality(mine) <= 1
                  /\ (epoch = 0 => Cardinality(mine) = 1)
                  /\ \A i \in mine :
                       request_log[i].model_version = c.selected_model
             /\ c.pc = "failed" =>
                  /\ c.appends = 0
                  /\ c.incs = 0
                  /\ mine = {}
    /\ epoch = 0 =>
         \A v \in Versions :
            prediction_counter[v] =
               Len(SelectSeq(request_log, LAMBDA r : r.model_version = v))
               + Cardinality(Counted(v))

C1_Witness ==
    /\ epoch = 0
    /\ call["w1"].pc = "returned"
    /\ call["w1"].selected_model = "v2"
    /\ call["w2"].pc = "failed"
    /\ Len(request_log) = 1

\* C2: while no reset has run and no route call is in flight, the log holds
\* one record per route call that returned, and the request ids of its
\* records are pairwise distinct.
C2_NoLostAppend ==
    (epoch = 0 /\ \A w \in Workers : ~InFlight(call[w])) =>
        /\ Len(request_log) = returned
        /\ \A i, j \in DOMAIN request_log :
              request_log[i].request_id = request_log[j].request_id => i = j

\* two calls that overlapped: the later request id was appended first
C2_Witness ==
    /\ epoch = 0
    /\ \A w \in Workers : call[w].pc = "returned"
    /\ returned = 2
    /\ Len(request_log) = 2
    /\ request_log[1].request_id > request_log[2].request_id

-----------------------------------------------------------------------------
(* Properties of reset_logs against get_statistics *)

RECURSIVE SumCounts(_, _)
SumCounts(m, S) ==
    IF S = {} THEN 0
    ELSE LET v == CHOOSE x \in S : TRUE
         IN  m[v].request_count + SumCounts(m, S \ {v})

\* a result computed from one record set: the per-version counts add up to
\* the total and every share is taken over the total
Coherent(r) ==
    /\ SumCounts(r.models, DOMAIN r.models) = r.total_requests
    /\ \A v \in DOMAIN r.models :
          r.models[v].traffic_percentage[2] = r.total_requests

\* C3: a get_statistics call during which no record was appended, whether or
\* not a reset ran during it, does not raise and returns a result computed
\* from one record set (the one before the reset or the empty one after it).
C3_StatsAtomicWithReset ==
    (gs.pc = "done" /\ ~gs.appended) =>
        /\ ~gs.raised
        /\ Coherent(gs.result)

\* C4 as stated: get_statistics that starts after a reset which ran while no
\* route call was in flight (so every later record comes from a call issued
\* after the reset) returns total_requests = 0.
C4_ResetThenStatsZero ==
    (gs.pc = "done" /\ epoch >= 1 /\ gs.epoch0 = epoch /\ quietReset) =>
        /\ ~gs.raised
        /\ gs.result.total_requests = 0

\* C4 amended: get_statistics that starts after a reset does not raise and
\* counts only records appended since that reset: at most their number, so 0
\* when no route call has logged since.
C4_ResetThenStatsCountsOnlyLater ==
    (gs.pc = "done" /\ epoch >= 1 /\ gs.epoch0 = epoch) =>
        /\ ~gs.raised
        /\ gs.result.total_requests <= since

C4_Witness ==
    /\ gs.pc = "done"
    /\ epoch >= 1
    /\ gs.epoch0 = epoch
    /\ since = 1
    /\ gs.result.total_requests = 1
    /\ \E v \in Versions : prediction_counter[v] = 2

\* C5: a route call whose selected version is not in the registry fails: it
\* makes no append, bumps no counter and leaves no record, and no record of
\* the log ever names a version the registry does not hold.
C5_UnknownVersionFails ==
    /\ \A w \in Workers :
         (call[w].pc # "idle" /\ call[w].selected_model \notin models) =>
             /\ call[w].pc = "failed"
             /\ call[w].appends = 0
             /\ call[w].incs = 0
             /\ RecordsOf(call[w].request_id) = {}
    /\ \A i \in DOMAIN request_log : request_log[i].model_version \in models
    /\ \A v \in Versions \ models : prediction_counter[v] = 0

C5_Witness ==
    \E w \in Workers :
        /\ call[w].pc = "failed"
        /\ call[w].selected_model = "v3"
        /\ Len(request_log) = 1
        /\ request_log[1].request_id < call[w].request_id

-----------------------------------------------------------------------------
(* Properties of the constructor *)

InRange(total) == LowerSum <= total /\ total <= UpperSum

\* C6: a policy supplied by the caller is accepted exactly when its weights
\* sum within [0.99, 1.01], and an accepted policy is the active one unchanged.
C6_AcceptedIffSumInRange ==
    (status # "new" /\ arg.given) =>
        /\ (status = "ok") <=> InRange(SumWeights(arg.split))
        /\ status = "ok" => traffic_split = arg.split

\* C7: a policy holding a negative weight is rejected, whatever its sum.
C7_NegativeWeightRejected ==
    (status # "new" /\ arg.given
       /\ \E i \in DOMAIN arg.split : arg.split[i].weight < 0) =>
        status = "raised"

-----------------------------------------------------------------------------
(* Properties of get_statistics on one record set *)

IndicesOf(v) == { i \in DOMAIN request_log : request_log[i].model_version = v }

RECURSIVE LatencySum(_)
LatencySum(I) ==
    IF I = {} THEN 0
    ELSE LET i == CHOOSE x \in I : TRUE
         IN  request_log[i].latency_ms + LatencySum(I \ {i})

\* C8 as stated: the result has an entry for every version of the policy, and
\* the entry of a version without records has request count 0.
C8_EveryVersionReported ==
    gs.pc = "done" =>
        /\ ~gs.raised
        /\ DOMAIN gs.result.models = Keys(traffic_split)
        /\ \A v \in Keys(traffic_split) :
              IndicesOf(v) = {} => gs.result.models[v].request_count = 0

\* C8 amended: the result has an entry for exactly the versions of the policy
\* that have at least one record; a version without records is left out, and
\* the map of an empty record set is empty.
C8_EntryIffRecords ==
    gs.pc = "done" =>
        /\ ~gs.raised
        /\ DOMAIN gs.result.models =
              { v \in Keys(traffic_split) : IndicesOf(v) # {} }
        /\ \A v \in DOMAIN gs.result.models :
              gs.result.models[v].request_count >= 1

C8_Witness ==
    /\ gs.pc = "done"
    /\ request_log # << >>
    /\ "v1" \in Keys(traffic_split) /\ "v1" \notin DOMAIN gs.result.models
    /\ "v2" \in DOMAIN gs.result.models

\* C9: a get_statistics call made while the record set is empty (no record
\* appended since construction or since the last reset) returns
\* total_requests = 0 with an empty per-version map and does not raise.
C9_EmptyLogZeroStats ==
    (gs.pc = "done" /\ gs.epoch0 = epoch /\ since = 0) =>
        /\ ~gs.raised
        /\ gs.result.total_requests = 0
        /\ DOMAIN gs.result.models = {}

\* after a reset that dropped a record
C9_Witness ==
    /\ gs.pc = "done"
    /\ epoch >= 1
    /\ gs.epoch0 = epoch
    /\ since = 0
    /\ \E v \in Versions : prediction_counter[v] >= 1
    /\ \E w \in Workers : call[w].pc = "returned"

\* C10: every reported version's statistics are those of exactly the records
\* of that version: their number, the minimum, maximum and mean of their
\* latencies, the percentage of them with a positive prediction, and their
\* number as a percentage of all records.
C10_PerVersionStats ==
    gs.pc = "done" =>
        /\ gs.result.total_requests = Len(request_log)
        /\ \A v \in DOMAIN gs.result.models :
             LET e == gs.result.models[v]
                 I == IndicesOf(v)
                 n == Cardinality(I)
                 positive == { i \in I : request_log[i].prediction = 1 }
             IN  /\ n >= 1
                 /\ e.request_count = n
                 /\ \E i \in I : request_log[i].latency_ms = e.min_latency_ms
                 /\ \A i \in I : e.min_latency_ms <= request_log[i].latency_ms
                 /\ \E i \in I : request_log[i].latency_ms = e.max_latency_ms
                 /\ \A i \in I : e.max_latency_ms >= request_log[i].latency_ms
                 /\ e.avg_latency_ms[2] > 0
                 /\ e.avg_latency_ms[1] * n = LatencySum(I) * e.avg_latency_ms[2]
                 /\ e.churn_rate[2] > 0
                 /\ e.churn_rate[1] * n =
                       Percent * Cardinality(positive) * e.churn_rate[2]
                 /\ e.traffic_percentage[2] > 0
                 /\ e.traffic_percentage[1] * Len(request_log) =
                       Percent * n * e.traffic_percentage[2]

\* two v1 records of different latency, one of them positive, and one v2
C10_Witness ==
    /\ gs.pc = "done"
    /\ Len(request_log) = 3
    /\ DOMAIN gs.result.models = {"v1", "v2"}
    /\ gs.result.models["v1"].request_count = 2
    /\ gs.result.models["v1"].min_latency_ms < gs.result.models["v1"].max_latency_ms
    /\ gs.result.models["v1"].churn_rate = << 100, 2 >>

-----------------------------------------------------------------------------
(* Properties of select_model *)

\* the cumulative weight after the i-th version of the split
PrefixSum(split, i) == SumWeights(SubSeq(split, 1, i))

\* the positions whose cumulative weight is at least r
Reached(split, r) == { i \in DOMAIN split : r <= PrefixSum(split, i) }

\* C11, as stated: when the drawn value exceeds the final cumulative sum of
\* the weights, select_model returns the last version of the split.
C11_FallbackReturnsLast ==
    (sel.pc = "done" /\ sel.rand_value > SumWeights(traffic_split))
    => sel.result = traffic_split[Len(traffic_split)].version

\* C11, amended: when the drawn value exceeds the cumulative weight at every
\* version of the split (for weights that are not negative: when it exceeds
\* the final sum), select_model does not fail and returns the first version
\* of the split, as line 49 does.
C11_FallbackReturnsFirst ==
    (sel.pc = "done" /\ Reached(traffic_split, sel.rand_value) = {})
    => sel.result = traffic_split[1].version

\* a split of two versions summing to less than the drawn value: the first
\* version is returned, not the last
C11_Witness ==
    /\ sel.pc = "done"
    /\ Len(traffic_split) >= 2
    /\ sel.rand_value > SumWeights(traffic_split)
    /\ Reached(traffic_split, sel.rand_value) = {}
    /\ sel.result = traffic_split[1].version
    /\ sel.result # traffic_split[Len(traffic_split)].version

\* the first position whose cumulative weight is at least r
FirstReached(split, r) ==
    CHOOSE i \in Reached(split, r) : \A j \in Reached(split, r) : i <= j

\* C12: for an accepted split and a drawn value r of [0, 1) that some
\* cumulative weight reaches, select_model returns the first version, in
\* insertion order, whose cumulative weight is at least r; and for every r
\* the version returned is the one returned for the same split and r without
\* a user_id, so the user_id does not affect it.
C12_FirstReachedVersion ==
    sel.pc = "done" =>
       /\ Reached(traffic_split, sel.rand_value) # {} =>
             sel.result =
                traffic_split[FirstReached(traffic_split,
                                           sel.rand_value)].version
       /\ sel.result = select_model(traffic_split, NoUser, sel.rand_value)
       /\ sel.result \in Keys(traffic_split)

\* a call with a user_id whose drawn value passes the first cumulative weight
\* and is reached by a later one
C12_Witness ==
    /\ sel.pc = "done"
    /\ sel.user_id # NoUser
    /\ Reached(traffic_split, sel.rand_value) # {}
    /\ FirstReached(traffic_split, sel.rand_value) > 1
    /\ sel.rand_value = PrefixSum(traffic_split,
                                  FirstReached(traffic_split, sel.rand_value))
    /\ sel.result # traffic_split[1].version

-----------------------------------------------------------------------------
(* Properties of the log against the split *)

\* the numerators of the traffic percentages of m over the versions S
RECURSIVE SumShares(_, _)
SumShares(m, S) ==
    IF S = {} THEN 0
    ELSE LET v == CHOOSE x \in S : TRUE
         IN  m[v].traffic_percentage[1] + SumShares(m, S \ {v})

\* C13: whatever route, reset and statistics operations have run, every
\* record of the request log carries a model_version that is a key of the
\* traffic split; and a get_statistics call that no append and no reset
\* overlapped returns without raising per-version request counts that add
\* up to total_requests and, when total_requests > 0, traffic percentages
\* (all taken over total_requests) that add up to 100.
C13_LoggedVersionsAreKeys ==
    /\ \A i \in DOMAIN request_log :
          request_log[i].model_version \in Keys(traffic_split)
    /\ (gs.pc = "done" /\ ~gs.appended /\ ~gs.reset) =>
          LET r == gs.result
          IN  /\ ~gs.raised
              /\ DOMAIN r.models \subseteq Keys(traffic_split)
              /\ SumCounts(r.models, DOMAIN r.models) = r.total_requests
              /\ \A v \in DOMAIN r.models :
                    r.models[v].traffic_percentage[2] = r.total_requests
              /\ r.total_requests > 0 =>
                    SumShares(r.models, DOMAIN r.models)
                       = Percent * r.total_requests

\* after a reset, two route calls have logged different versions and a
\* statistics call that nothing overlapped has reported both
C13_Witness ==
    /\ epoch >= 1
    /\ Len(request_log) = 2
    /\ request_log[1].model_version # request_log[2].model_version
    /\ gs.pc = "done" /\ ~gs.appended /\ ~gs.reset /\ ~gs.raised
    /\ gs.result.total_requests = 2
    /\ DOMAIN gs.result.models = {"v1", "v2"}
    /\ SumShares(gs.result.models, {"v1", "v2"}) = Percent * 2

====
